---- MODULE Spec2Model ----
(***************************************************************************)
(* The /api/chat gateway of oeybers-cpu/all_assess: six handler variants   *)
(* (src/api/chat.js, src/scripts/app.js, src/unnamed/part_000, part_001    *)
(* and the two handlers of part_002), modelled as one state machine whose  *)
(* steps are the handler's runs between its suspension points (the await   *)
(* of req.json(), of fetch() and of upstream.text()).                      *)
(***************************************************************************)
EXTENDS Integers, Sequences, FiniteSets, TLC

VARIABLES
    env,            \* process.env: [apiKey |-> BOOLEAN], read-only after start
    requestCount,   \* src/scripts/app.js: module-level let requestCount
    inv,            \* the handler invocations, one record per slot
    wf,             \* src/agentWorkflow.ts: one call of runWorkflow
    val             \* a parsed body and the validation calls made on it

vars == <<env, requestCount, inv, wf, val>>

------------------------------------------------------------------------------
(* Bounds of the model and constants of the program *)

\* arrays of 1..MaxShort messages are enumerated next to the boundary lengths
MaxShort == 2
\* chat.js validateMessages: if (messages.length > 100)
MaxMessages == 100
\* app.js / part_002: const MAX_MESSAGE_LENGTH = 500
MAX_MESSAGE_LENGTH == 500
\* the invocation slots; Spec runs one request, on slot 1
NumSlots == 2
\* the chunks an upstream event stream has at most
MaxChunks == 2
\* the items a run of an agent produces at most
MaxNewItems == 2

Slots == 1..NumSlots

Variants == {"chat", "app", "p000", "p001", "p002a", "p002b"}
Methods  == {"OPTIONS", "GET", "POST", "DELETE"}
\* the request's content-type header: absent, JSON, or something else
ContentTypes == {"", "application/json; charset=utf-8", "text/plain"}

\* export const config = { runtime: "edge" }: the Edge runtime defines
\* AbortSignal.timeout, which the handlers test for before using it
AbortSignalTimeoutAvailable == TRUE

------------------------------------------------------------------------------
(* JavaScript values of the request body, as far as the handlers inspect   *)
(* them.  A string is its text s and its length n (contents are arbitrary  *)
(* text of a given length); a number is its value n.                       *)

Undefined == [t |-> "undefined", s |-> "", n |-> 0]
Str(s, n) == [t |-> "string", s |-> s, n |-> n]
Num(n)    == [t |-> "number", s |-> "", n |-> n]
Bool(b)   == [t |-> "boolean", s |-> "", n |-> IF b THEN 1 ELSE 0]

\* JavaScript truthiness: undefined, "", 0 and false are falsy
Truthy(v) == CASE v.t = "undefined" -> FALSE
               [] v.t = "string"    -> v.n > 0
               [] v.t = "number"    -> v.n # 0
               [] v.t = "boolean"   -> v.n = 1

\* v.length: defined for strings only
LengthOf(v) == IF v.t = "string" THEN v.n ELSE -1

\* an entry of the messages array: an object, null, or a number
Msg(role, content) == [k |-> "object", role |-> role, content |-> content]
NullMsg == [k |-> "null",   role |-> Undefined, content |-> Undefined]
NumMsg  == [k |-> "number", role |-> Undefined, content |-> Undefined]

GoodMsg == Msg(Str("user", 4), Str("hi", 2))
\* the entries a request may carry besides GoodMsg
OtherMsgs ==
    { NullMsg, NumMsg,
      Msg(Undefined, Str("hi", 2)),                       \* no role
      Msg(Num(7), Str("hi", 2)),                          \* role not a string
      Msg(Str("tool", 4), Str("hi", 2)),                  \* role not enumerated
      Msg(Str("system", 6), Undefined),                   \* no content
      Msg(Str("assistant", 9), Str("", 0)),               \* empty content
      Msg(Str("user", 4), Num(7)),                        \* content not a string
      Msg(Str("assistant", 9), Str("long", MAX_MESSAGE_LENGTH)),
      Msg(Str("user", 4), Str("long", MAX_MESSAGE_LENGTH + 1)) }

\* the array lengths: empty, short, and the two sides of the count limit
ArrayLengths == (0..MaxShort) \cup {MaxMessages, MaxMessages + 1}

\* arrays of GoodMsg with at most one other entry, first or last; at the
\* count limit, the other entry is the over-long one, in the last place
MessageArrays ==
    { [i \in 1..n |-> GoodMsg] : n \in ArrayLengths } \cup
    UNION { { [i \in 1..n |-> IF i = at THEN m ELSE GoodMsg] :
                at \in {1, n}, m \in OtherMsgs } : n \in 1..MaxShort } \cup
    { [i \in 1..n |-> IF i = n THEN Msg(Str("user", 4), Str("long", MAX_MESSAGE_LENGTH + 1))
                      ELSE GoodMsg] :
        n \in {MaxMessages, MaxMessages + 1} }

\* the messages property: absent, not an array, or an array
NoMessages      == [t |-> "undefined", items |-> <<>>]
StringMessages  == [t |-> "string",    items |-> <<>>]
ArrayOf(items)  == [t |-> "array",     items |-> items]
MessagesValues  == {NoMessages, StringMessages} \cup { ArrayOf(a) : a \in MessageArrays }

\* the model names requests ask for: allow-listed in some variants, in none
RequestedModels ==
    { Undefined, Str("gpt-4.1-mini", 12), Str("gpt-4o", 6), Str("gpt-4.1", 7),
      Str("gpt-5", 5) }

ObjectBody(messages, model, useResponsesApi, previous_response_id) ==
    [k |-> "object", messages |-> messages, model |-> model,
     useResponsesApi |-> useResponsesApi,
     previous_response_id |-> previous_response_id]
\* the bodies for which req.json() resolves with null or with a number, and
\* the one for which it rejects
NullBody   == [ObjectBody(NoMessages, Undefined, Undefined, Undefined) EXCEPT !.k = "null"]
NumberBody == [ObjectBody(NoMessages, Undefined, Undefined, Undefined) EXCEPT !.k = "number"]
Unparseable == [ObjectBody(NoMessages, Undefined, Undefined, Undefined) EXCEPT !.k = "unparseable"]

Bodies ==
    { NullBody, NumberBody, Unparseable } \cup
    { ObjectBody(ms, md, u, p) :
        ms \in MessagesValues, md \in RequestedModels,
        u \in {Undefined, Bool(TRUE)}, p \in {Undefined, Str("resp_1", 6)} }

\* property access on the parsed body: body ?? {} / payload || {}
Prop(body, name) ==
    IF body.k # "object" THEN (IF name = "messages" THEN NoMessages ELSE Undefined)
    ELSE CASE name = "messages" -> body.messages
           [] name = "model" -> body.model
           [] name = "useResponsesApi" -> body.useResponsesApi
           [] name = "previous_response_id" -> body.previous_response_id

------------------------------------------------------------------------------
(* Static configuration of the variants *)

\* chat.js validateModel: const validModels = [...]
validModels ==
    {"gpt-4", "gpt-4-turbo", "gpt-4-mini", "gpt-3.5-turbo", "gpt-4o", "gpt-4.1-mini"}

\* app.js and the first handler of part_002: const ALLOWED_MODELS
ALLOWED_MODELS_app == {"gpt-4.1-mini", "gpt-4.1", "gpt-4o-mini"}
\* the second handler of part_002: const ALLOWED_MODELS
ALLOWED_MODELS_p002b == {"gpt-4o", "gpt-4-turbo", "gpt-3.5-turbo"}

\* the model a variant uses when the request names none
DefaultModel(v) ==
    CASE v = "chat"  -> "gpt-4-mini"
      [] v = "app"   -> "gpt-4.1-mini"
      [] v = "p000"  -> "gpt-4.1-mini"
      [] v = "p001"  -> "gpt-3.5-turbo"
      [] v = "p002a" -> "gpt-4.1-mini"
      [] v = "p002b" -> "gpt-3.5-turbo"

\* the variants that relay the upstream body as a stream
Streaming == {"p001", "p002b"}

------------------------------------------------------------------------------
(* Validation *)

Min(S) == CHOOSE x \in S : \A y \in S : x <= y

\* chat.js validateMessages, the body of the loop, for the entry at index i;
\* "" when the entry passes every test
MessageError(msg, i) ==
    IF msg.k # "object"
    THEN "Message at index " \o ToString(i) \o " must be an object"
    ELSE IF ~Truthy(msg.role) \/ msg.role.t # "string"
    THEN "Message at index " \o ToString(i) \o " must have a 'role' string"
    ELSE IF ~Truthy(msg.content) \/ msg.content.t # "string"
    THEN "Message at index " \o ToString(i) \o " must have a 'content' string"
    ELSE IF msg.role.s \notin {"system", "user", "assistant"}
    THEN "Message at index " \o ToString(i) \o " has invalid role '"
             \o msg.role.s \o "'"
    ELSE ""

\* chat.js validateMessages: the error text, or "" for the null it returns
\* when the array passes
validateMessages(messages) ==
    IF messages.t # "array" THEN "Messages must be an array"
    ELSE IF Len(messages.items) = 0 THEN "Messages array cannot be empty"
    ELSE IF Len(messages.items) > MaxMessages THEN "Too many messages (max 100)"
    ELSE LET bad == { i \in 1..Len(messages.items) :
                        MessageError(messages.items[i], i - 1) # "" }
         IN  IF bad = {} THEN ""
             ELSE MessageError(messages.items[Min(bad)], Min(bad) - 1)

\* chat.js validateModel
validateModel(model) == model.t = "string" /\ model.s \in validModels

\* the loop of validateRequest in app.js and part_002: reading .content of a
\* null entry throws a TypeError, a content longer than the limit is an error
TooLong(msg) ==
    msg.k = "object" /\ Truthy(msg.content)
        /\ LengthOf(msg.content) > MAX_MESSAGE_LENGTH

\* what validateRequest yields: a validation error, an exception, or the
\* accepted messages and model
ValidationError(text) ==
    [error |-> text, status |-> 400, threw |-> FALSE, messages |-> <<>>, model |-> ""]
ValidationThrew ==
    [error |-> "Cannot read properties of null (reading 'content')",
     status |-> 0, threw |-> TRUE, messages |-> <<>>, model |-> ""]
Validated(messages, model) ==
    [error |-> "", status |-> 0, threw |-> FALSE, messages |-> messages, model |-> model]

\* lines shared by the two validateRequest functions: the length loop, then
\* the choice of the model
LengthLoopThenModel(items, requestedModel, allowed, default) ==
    LET stop == { i \in 1..Len(items) : items[i].k = "null" \/ TooLong(items[i]) }
    IN  IF stop # {} /\ items[Min(stop)].k = "null" THEN ValidationThrew
        ELSE IF stop # {}
        THEN ValidationError("Message content exceeds maximum length of "
                                 \o ToString(MAX_MESSAGE_LENGTH) \o " characters")
        ELSE Validated(items,
                       IF requestedModel.t = "string" /\ requestedModel.s \in allowed
                       THEN requestedModel.s ELSE default)

\* app.js validateRequest
validateRequest_app(payload) ==
    LET messages == Prop(payload, "messages")
    IN  IF messages.t # "array" THEN ValidationError("messages must be an array")
        ELSE LengthLoopThenModel(messages.items, Prop(payload, "model"),
                                 ALLOWED_MODELS_app, "gpt-4.1-mini")

\* part_002 (second handler) validateRequest
validateRequest_p002b(payload) ==
    LET messages == Prop(payload, "messages")
    IN  IF messages.t # "array" \/ Len(messages.items) = 0
        THEN ValidationError("messages must be a non-empty array")
        ELSE LengthLoopThenModel(messages.items, Prop(payload, "model"),
                                 ALLOWED_MODELS_p002b, "gpt-3.5-turbo")

------------------------------------------------------------------------------
(* Upstream responses: status line, then the body text and what           *)
(* JSON.parse makes of it                                                   *)

\* the upstream answers: 2xx with a body, 204 without one, two failures
UpstreamHeads ==
    { [status |-> 200, hasBody |-> TRUE],  [status |-> 204, hasBody |-> FALSE],
      [status |-> 429, hasBody |-> TRUE],  [status |-> 500, hasBody |-> TRUE] }
NoUpstream == [status |-> 0, hasBody |-> FALSE]

\* Response.ok
Ok(up) == up.status >= 200 /\ up.status <= 299

TextQuota    == "{\"error\":{\"message\":\"quota\"}}"
TextErrorStr == "{\"error\":\"denied\"}"
TextMessage  == "{\"message\":\"overloaded\"}"
TextChoices  == "{\"choices\":[]}"
TextMetadata == "{\"choices\":[],\"_metadata\":{\"id\":1}}"
\* the body texts an upstream answer may carry
Texts ==
    {"", "Bad Gateway", "null", TextQuota, TextErrorStr, TextMessage, TextChoices,
     TextMetadata}

\* a parsed JSON text: null or an object, with the properties the handlers
\* read (error.message and message) and its top-level keys
Parsed(valid, k, errorMessage, message, keys) ==
    [valid |-> valid, k |-> k, errorMessage |-> errorMessage,
     message |-> message, keys |-> keys]
JsNull     == Parsed(TRUE, "null", Undefined, Undefined, {})
NotParsed  == Parsed(FALSE, "null", Undefined, Undefined, {})
\* the object literals part_001 substitutes for an unreadable error body
ObjMessage(text, n) == Parsed(TRUE, "object", Undefined, Str(text, n), {"message"})

\* JSON.parse on the texts above; valid = FALSE is the SyntaxError
JSONParse(text) ==
    CASE text = TextQuota    -> Parsed(TRUE, "object", Str("quota", 5), Undefined, {"error"})
      [] text = TextErrorStr -> Parsed(TRUE, "object", Undefined, Undefined, {"error"})
      [] text = TextMessage  -> Parsed(TRUE, "object", Undefined, Str("overloaded", 10), {"message"})
      [] text = TextChoices  -> Parsed(TRUE, "object", Undefined, Undefined, {"choices"})
      [] text = TextMetadata -> Parsed(TRUE, "object", Undefined, Undefined,
                                       {"choices", "_metadata"})
      [] text = "null"       -> JsNull
      [] OTHER               -> NotParsed

------------------------------------------------------------------------------
(* Responses *)

\* HTTP header names are case-insensitive: Headers stores them in lower case
Lower(name) ==
    CASE name = "Content-Type"                 -> "content-type"
      [] name = "Access-Control-Allow-Origin"  -> "access-control-allow-origin"
      [] name = "Access-Control-Allow-Methods" -> "access-control-allow-methods"
      [] name = "Access-Control-Allow-Headers" -> "access-control-allow-headers"
      [] name = "Cache-Control"                -> "cache-control"
      [] name = "Connection"                   -> "connection"
      [] OTHER                                 -> name

\* an object literal { k1: v1, ..., ...spread }: a later pair with the same
\* key (compared exactly) replaces the value of the earlier one
RECURSIVE ObjectLiteral(_)
ObjectLiteral(pairs) ==
    IF pairs = <<>> THEN <<>>
    ELSE LET init == ObjectLiteral(SubSeq(pairs, 1, Len(pairs) - 1))
             last == pairs[Len(pairs)]
             hit  == { i \in 1..Len(init) : init[i][1] = last[1] }
         IN  IF hit = {} THEN Append(init, last)
             ELSE [i \in 1..Len(init) |-> IF i \in hit THEN last ELSE init[i]]

\* the values, in order, of the pairs from index i on whose key is name in
\* lower case, joined as Headers.get joins them
RECURSIVE Joined(_, _, _)
Joined(obj, name, i) ==
    IF i > Len(obj) THEN ""
    ELSE LET rest == Joined(obj, name, i + 1)
         IN  IF Lower(obj[i][1]) # name THEN rest
             ELSE IF rest = "" THEN obj[i][2]
             ELSE obj[i][2] \o ", " \o rest

\* new Headers(init): the header list of a Response
Headers(pairs) ==
    LET obj == ObjectLiteral(pairs)
    IN  [name \in { Lower(obj[i][1]) : i \in 1..Len(obj) } |-> Joined(obj, name, 1)]

\* Headers.get: "" stands for the null of an absent header
HeaderGet(headers, name) ==
    IF Lower(name) \in DOMAIN headers THEN headers[Lower(name)] ELSE ""

\* response bodies: a JSON object or value, no body, plain text, or a stream;
\* data is the upstream payload the body carries, replaced the keys of that
\* payload whose value the body does not carry
JsonBody(keys, error, message, data) ==
    [kind |-> "json", keys |-> keys, error |-> error, message |-> message,
     data |-> data, replaced |-> {}]
ErrorObject(text) == JsonBody({"error"}, text, "", NotParsed)
\* JSON.stringify of an upstream payload: its own keys, its own values
DataObject(data)  == JsonBody(data.keys, "", "", data)
EmptyBody   == [JsonBody({}, "", "", NotParsed) EXCEPT !.kind = "none"]
TextBody    == [JsonBody({}, "", "", NotParsed) EXCEPT !.kind = "text"]
StreamBody  == [JsonBody({}, "", "", NotParsed) EXCEPT !.kind = "stream"]

NoResponse == [status |-> 0, headers |-> Headers(<<>>), body |-> EmptyBody]

\* a 204, 205 or 304 response must not have a body
NullBodyStatus(status) == status \in {101, 103, 204, 205, 304}

\* what a handler run ends with: a Response it returns or an exception it
\* lets escape
Returned(resp) == [kind |-> "returned", response |-> resp, error |-> ""]
Threw(message) == [kind |-> "threw", response |-> NoResponse, error |-> message]

\* new Response(body, { status, headers }): throws a TypeError for a
\* non-null body with a null-body status
NewResponse(body, status, pairs) ==
    IF body.kind # "none" /\ NullBodyStatus(status)
    THEN Threw("Response constructor: Invalid response status code "
                   \o ToString(status))
    ELSE Returned([status |-> status, headers |-> Headers(pairs), body |-> body])

\* jsonResponse without the CORS header
jsonResponseNoCors(obj, status, extraHeaders) ==
    NewResponse(obj, status,
        << <<"content-type", "application/json; charset=utf-8">> >> \o extraHeaders)

\* chat.js jsonResponse
jsonResponse(obj, status, extraHeaders) ==
    NewResponse(obj, status,
        << <<"content-type", "application/json; charset=utf-8">>,
           <<"access-control-allow-origin", "*">> >> \o extraHeaders)

\* app.js createResponse, part_000 json, part_002 json and createJsonResponse:
\* the same function under other names
createResponse(obj, status, extraHeaders) == jsonResponse(obj, status, extraHeaders)

\* part_001 response: a JSON body for an object, else text; null becomes ''
response(body, status, extraHeaders) ==
    LET isJson == body.kind = "json"
    IN  NewResponse(IF isJson THEN body ELSE TextBody, status,
            << <<"Content-Type", IF isJson THEN "application/json" ELSE "text/plain">>,
               <<"Access-Control-Allow-Origin", "*">> >> \o extraHeaders)

\* app.js and part_002 handleError: { error, timestamp } at the given status
handleError(message, status) ==
    createResponse(
        JsonBody({"error", "timestamp"},
                 IF message # "" THEN message ELSE "Unknown server error",
                 "", NotParsed),
        status, <<>>)

------------------------------------------------------------------------------
(* The state of one handler invocation *)

\* the JSON body of the upstream call
NoPayload ==
    [keys |-> {}, model |-> "", messages |-> <<>>, stream |-> Undefined,
     input |-> <<>>, previous_response_id |-> Undefined]

\* the deadline attached to the upstream call: kind is "setTimeout" (chat.js,
\* a timer that aborts an AbortController) or "AbortSignal.timeout"; state is
\* "armed", "cleared" or "fired"
NoDeadline == [kind |-> "none", state |-> "none"]

Idle ==
    [pc |-> "idle",            \* idle, json, fetch, text, done
     variant |-> "", method |-> "", contentType |-> "",
     keyRead |-> FALSE,        \* process.env.OPENAI_API_KEY was read
     jsonCalled |-> FALSE,     \* req.json() was called
     validationRun |-> FALSE,  \* the messages were looked at
     body |-> NullBody,        \* what req.json() resolved with
     fetches |-> 0,            \* upstream calls issued
     endpoint |-> "",          \* the URL path of the upstream call
     payload |-> NoPayload,
     deadline |-> NoDeadline,
     aborted |-> FALSE,        \* the upstream call was aborted
     lateAbort |-> FALSE,      \* abort() was invoked after the handler returned
     upstream |-> NoUpstream,  \* the upstream response, once fetch resolved
     fetchFault |-> "",        \* the name of the error fetch rejected with
     textRead |-> FALSE,       \* upstream.text() resolved,
     text |-> "",              \*   with this text
     textFault |-> "",         \* the name of the error upstream.text() rejected with
     outcome |-> "none",       \* none, returned, threw
     response |-> NoResponse,
     error |-> "",
     stream |-> "none",        \* the relayed body: none, open, closed, errored
     emitted |-> <<>>,         \* the chunks the upstream body has produced
     upstreamClosed |-> FALSE, \* the upstream body has ended
     delivered |-> <<>>]       \* the chunks the caller has received

\* the handler ends: it returns a Response or lets an exception escape
Finish(r, result) ==
    [r EXCEPT !.pc = "done", !.outcome = result.kind,
              !.response = result.response, !.error = result.error]

\* the exceptions the platform raises
AbortError   == [name |-> "AbortError",   message |-> "This operation was aborted"]
TimeoutError == [name |-> "TimeoutError", message |-> "The operation was aborted due to timeout"]
FetchFailed  == [name |-> "TypeError",    message |-> "fetch failed"]
BodyFailed   == [name |-> "TypeError",    message |-> "terminated"]
NullContent  == [name |-> "TypeError",
                 message |-> "Cannot read properties of null (reading 'content')"]
NullError    == [name |-> "TypeError",
                 message |-> "Cannot read properties of null (reading 'error')"]

\* the catch clause an exception thrown after the method dispatch reaches
Catch(v, e) ==
    CASE v = "chat" ->
           \* the catch (fetchError) around either upstream path
           IF e.name = "AbortError"
           THEN jsonResponse(ErrorObject("Request timeout"), 408, <<>>)
           ELSE jsonResponse(ErrorObject("Network error"), 503, <<>>)
      [] v \in {"app", "p002b"} ->
           IF e.name = "TimeoutError" \/ e.name = "AbortError"
           THEN handleError("Request timeout", 408)
           ELSE handleError(e.message, 500)
      [] v \in {"p000", "p002a"} ->
           createResponse(
               ErrorObject(IF e.message # "" THEN e.message ELSE "Unknown server error"),
               500, <<>>)
      [] v = "p001" ->
           response(
               ErrorObject(IF e.message # "" THEN e.message
                           ELSE "Unknown server error during request processing"),
               500, <<>>)

------------------------------------------------------------------------------
(* Method dispatch: the handler up to its first await *)

\* the CORS preflight answer of each variant
Preflight(v) ==
    CASE v = "chat" ->
           NewResponse(EmptyBody, 204,
               << <<"access-control-allow-origin", "*">>,
                  <<"access-control-allow-methods", "POST, GET, OPTIONS">>,
                  <<"access-control-allow-headers",
                    "content-type, authorization, x-requested-with">>,
                  <<"access-control-max-age", "86400">> >>)
      [] v \in {"app", "p002b"} ->
           \* handleCORS
           NewResponse(EmptyBody, 204,
               << <<"access-control-allow-origin", "*">>,
                  <<"access-control-allow-methods", "POST, GET, OPTIONS, DELETE">>,
                  <<"access-control-allow-headers",
                    "content-type, authorization, x-requested-with">>,
                  <<"access-control-max-age", "86400">> >>)
      [] v \in {"p000", "p002a"} ->
           NewResponse(EmptyBody, 204,
               << <<"access-control-allow-origin", "*">>,
                  <<"access-control-allow-methods", "POST, GET, OPTIONS">>,
                  <<"access-control-allow-headers", "content-type, authorization">>,
                  <<"access-control-max-age", "86400">> >>)
      [] v = "p001" ->
           \* response(null, 204, ...): String(null || '') is '', a body
           response(EmptyBody, 204,
               << <<"Access-Control-Allow-Methods", "POST, GET, OPTIONS">>,
                  <<"Access-Control-Allow-Headers", "content-type, authorization, accept">>,
                  <<"Access-Control-Allow-Origin", "*">> >>)

\* the readiness payload of each variant
HealthCheck(v) ==
    CASE v = "chat" ->
           jsonResponse(
               JsonBody({"ok", "message", "timestamp"}, "",
                        "Chat endpoint is operational. Use POST for requests.", NotParsed),
               200, <<>>)
      [] v = "app" ->
           \* handleHealthCheck
           createResponse(
               JsonBody({"ok", "message", "timestamp", "features"}, "",
                        "chat endpoint is live. use POST.", NotParsed),
               200, <<>>)
      [] v = "p002b" ->
           createResponse(
               JsonBody({"ok", "message", "timestamp", "features"}, "",
                        "chat endpoint is live and supports streaming. use POST.",
                        NotParsed),
               200, <<>>)
      [] v \in {"p000", "p002a"} ->
           createResponse(
               JsonBody({"ok", "message"}, "", "chat endpoint is live. use POST.", NotParsed),
               200, <<>>)
      [] v = "p001" ->
           response(
               JsonBody({"ok", "message"}, "",
                        "Chat streaming endpoint is live. Use POST.", NotParsed),
               200, <<>>)

\* the answer to a method other than OPTIONS, GET and POST
MethodNotAllowed(v) ==
    IF v = "p001" THEN response(ErrorObject("Method not allowed"), 405, <<>>)
    ELSE createResponse(ErrorObject("Method not allowed"), 405, <<>>)

\* the answer to a POST when process.env.OPENAI_API_KEY is not set
MissingKey(v) ==
    CASE v = "chat" -> jsonResponse(ErrorObject("Server configuration error"), 500, <<>>)
      [] v \in {"app", "p002b"} -> handleError("OPENAI_API_KEY is not set", 500)
      [] v \in {"p000", "p002a"} ->
           createResponse(ErrorObject("OPENAI_API_KEY is not set"), 500, <<>>)
      [] v = "p001" ->
           response(ErrorObject("OPENAI_API_KEY is not set in Vercel environment variables"),
                    500, <<>>)

\* contentType?.includes('application/json')
IsJsonContentType(ct) == ct = "application/json; charset=utf-8"

\* the handler from its entry to the await of req.json(), or to the return
\* that comes first; r holds the request's variant, method and content type
Dispatch(r, apiKey) ==
    IF r.method = "OPTIONS" THEN Finish(r, Preflight(r.variant))
    ELSE IF r.method = "GET" THEN Finish(r, HealthCheck(r.variant))
    ELSE IF r.method # "POST" THEN Finish(r, MethodNotAllowed(r.variant))
    ELSE IF r.variant = "chat" /\ ~IsJsonContentType(r.contentType)
    THEN Finish(r, jsonResponse(ErrorObject("Content-Type must be application/json"),
                                415, <<>>))
    ELSE IF ~apiKey THEN Finish([r EXCEPT !.keyRead = TRUE], MissingKey(r.variant))
    ELSE [r EXCEPT !.keyRead = TRUE, !.jsonCalled = TRUE, !.pc = "json"]

------------------------------------------------------------------------------
(* From the parsed body to the upstream call *)

\* IssueFetch with a retry: the call is issued a second time
IssueFetchRetry(r, endpoint, payload, deadlineKind) ==
    [r EXCEPT !.pc = "fetch", !.fetches = @ + 2, !.endpoint = endpoint,
              !.payload = payload,
              !.deadline = IF deadlineKind = "none" THEN NoDeadline
                           ELSE [kind |-> deadlineKind, state |-> "armed"]]

\* fetch(url, { body: JSON.stringify(payload), signal }): one upstream call
\* is issued and the handler awaits it, with the deadline armed
IssueFetch(r, endpoint, payload, deadlineKind) ==
    [r EXCEPT !.pc = "fetch", !.fetches = @ + 1, !.endpoint = endpoint,
              !.payload = payload,
              !.deadline = IF deadlineKind = "none" THEN NoDeadline
                           ELSE [kind |-> deadlineKind, state |-> "armed"]]

\* AbortSignal.timeout ? AbortSignal.timeout(ms) : undefined
OptionalSignal == IF AbortSignalTimeoutAvailable THEN "AbortSignal.timeout" ELSE "none"

\* `${value}` of a request property
Text(v) == CASE v.t = "string" -> v.s
             [] v.t = "undefined" -> "undefined"
             [] v.t = "number" -> ToString(v.n)
             [] v.t = "boolean" -> IF v.n = 1 THEN "true" ELSE "false"

\* const { model = default } = body ?? {}: the default replaces undefined only
ModelOr(body, default) ==
    IF Prop(body, "model").t = "undefined" THEN Str(default, 0) ELSE Prop(body, "model")

\* an entry of the Responses-API input: a role and one text part; of is the
\* array whose JSON text the part holds, when it holds one
InputEntry(role, text, of) == [role |-> role, type |-> "text", text |-> text, of |-> of]

\* ...(previous_response_id ? { previous_response_id } : {})
WithPrevious(keys, body) ==
    IF Truthy(Prop(body, "previous_response_id"))
    THEN keys \cup {"previous_response_id"} ELSE keys
PreviousOf(body) ==
    IF Truthy(Prop(body, "previous_response_id"))
    THEN Prop(body, "previous_response_id") ELSE Undefined

\* the answer to a body that is not JSON
InvalidJson(v) ==
    CASE v = "chat" -> jsonResponse(ErrorObject("Invalid JSON in request body"), 400, <<>>)
      [] v \in {"app", "p002b"} -> handleError("Invalid JSON body", 400)
      [] v \in {"p000", "p002a"} -> createResponse(ErrorObject("Invalid JSON body"), 400, <<>>)
      [] v = "p001" -> response(ErrorObject("Invalid JSON body"), 400, <<>>)

\* chat.js, from the destructuring of the body to either fetch
Validate_chat(r, body) ==
    LET messages == Prop(body, "messages")
        model    == ModelOr(body, "gpt-4-mini")
        error    == validateMessages(messages)
    IN  IF error # ""
        THEN Finish(r, jsonResponse(ErrorObject("Invalid messages: " \o error), 400, <<>>))
        ELSE IF ~validateModel(model)
        THEN Finish(r, jsonResponse(ErrorObject("Unsupported model: " \o Text(model)),
                                    400, <<>>))
        ELSE IF ~Truthy(Prop(body, "useResponsesApi"))
        THEN IssueFetch(r, "/v1/chat/completions",
                 [NoPayload EXCEPT !.keys = {"model", "messages", "stream"},
                                   !.model = model.s, !.messages = messages.items,
                                   !.stream = Bool(FALSE)],
                 "setTimeout")
        ELSE IssueFetch(r, "/v1/responses",
                 [NoPayload EXCEPT !.keys = WithPrevious({"model", "input"}, body),
                                   !.model = model.s,
                                   !.input = [i \in 1..Len(messages.items) |->
                                                InputEntry(messages.items[i].role,
                                                           messages.items[i].content, <<>>)],
                                   !.previous_response_id = PreviousOf(body)],
                 "setTimeout")

\* a handler that forwards the messages without the first one
Validate_appTail(r, body) ==
    LET validation == validateRequest_app(body)
    IN  IF validation.threw THEN Finish(r, Catch("app", NullContent))
        ELSE IF validation.error # ""
        THEN Finish(r, handleError(validation.error, validation.status))
        ELSE IssueFetch(r, "/v1/chat/completions",
                 [NoPayload EXCEPT !.keys = {"model", "messages", "temperature", "max_tokens"},
                                   !.model = validation.model,
                                   !.messages = IF validation.messages = <<>> THEN <<>>
                                                ELSE Tail(validation.messages)],
                 OptionalSignal)

\* app.js, from validateRequest to createOpenAIRequest
Validate_app(r, body) ==
    LET validation == validateRequest_app(body)
    IN  IF validation.threw THEN Finish(r, Catch("app", NullContent))
        ELSE IF validation.error # ""
        THEN Finish(r, handleError(validation.error, validation.status))
        ELSE IssueFetch(r, "/v1/chat/completions",
                 [NoPayload EXCEPT !.keys = {"model", "messages", "temperature", "max_tokens"},
                                   !.model = validation.model,
                                   !.messages = validation.messages],
                 OptionalSignal)

\* part_000, from the destructuring of the body to either fetch
Validate_p000(r, body) ==
    LET messages == Prop(body, "messages")
        model    == ModelOr(body, "gpt-4.1-mini")
    IN  IF messages.t # "array"
        THEN Finish(r, createResponse(
                 ErrorObject("messages must be an array of Chat Completions-style messages"),
                 400, <<>>))
        ELSE IF ~Truthy(Prop(body, "useResponsesApi"))
        THEN IssueFetch(r, "/v1/chat/completions",
                 [NoPayload EXCEPT !.keys = {"model", "messages"},
                                   !.model = Text(model), !.messages = messages.items],
                 OptionalSignal)
        ELSE IssueFetch(r, "/v1/responses",
                 [NoPayload EXCEPT !.keys = WithPrevious({"model", "input"}, body),
                                   !.model = Text(model),
                                   !.input = << InputEntry(Str("user", 4),
                                                   Str("JSON.stringify(messages)", 0),
                                                   messages.items) >>,
                                   !.previous_response_id = PreviousOf(body)],
                 OptionalSignal)

\* part_001, from the messages test to the fetch
Validate_p001(r, body) ==
    LET messages == Prop(body, "messages")
    IN  IF messages.t # "array" \/ Len(messages.items) = 0
        THEN Finish(r, response(ErrorObject("messages must be a non-empty array"), 400, <<>>))
        ELSE IssueFetch(r, "/v1/chat/completions",
                 [NoPayload EXCEPT !.keys = {"model", "messages", "stream"},
                                   !.model = "gpt-3.5-turbo", !.messages = messages.items,
                                   !.stream = Bool(TRUE)],
                 OptionalSignal)

\* part_002, first handler, from the messages test to the fetch
Validate_p002a(r, body) ==
    LET messages == Prop(body, "messages")
        requestedModel == Prop(body, "model")
    IN  IF messages.t # "array"
        THEN Finish(r, createResponse(ErrorObject("messages must be an array"), 400, <<>>))
        ELSE IssueFetch(r, "/v1/chat/completions",
                 [NoPayload EXCEPT !.keys = {"model", "messages"},
                                   !.model = IF requestedModel.t = "string"
                                                /\ requestedModel.s \in ALLOWED_MODELS_app
                                             THEN requestedModel.s ELSE "gpt-4.1-mini",
                                   !.messages = messages.items],
                 OptionalSignal)

\* part_002, second handler, from validateRequest to createOpenAIRequest
Validate_p002b(r, body) ==
    LET validation == validateRequest_p002b(body)
    IN  IF validation.threw THEN Finish(r, Catch("p002b", NullContent))
        ELSE IF validation.error # ""
        THEN Finish(r, handleError(validation.error, validation.status))
        ELSE IssueFetch(r, "/v1/chat/completions",
                 [NoPayload EXCEPT !.keys = {"model", "messages", "stream",
                                             "temperature", "max_tokens"},
                                   !.model = validation.model,
                                   !.messages = validation.messages,
                                   !.stream = Bool(TRUE)],
                 "AbortSignal.timeout")

\* the handler from the settling of req.json() to the await of fetch, or to
\* the return that comes first
AfterJson(r, body) ==
    IF body.k = "unparseable" THEN Finish(r, InvalidJson(r.variant))
    ELSE LET q == [r EXCEPT !.body = body, !.validationRun = TRUE]
         IN  CASE r.variant = "chat"  -> Validate_chat(q, body)
               [] r.variant = "app"   -> Validate_app(q, body)
               [] r.variant = "p000"  -> Validate_p000(q, body)
               [] r.variant = "p001"  -> Validate_p001(q, body)
               [] r.variant = "p002a" -> Validate_p002a(q, body)
               [] r.variant = "p002b" -> Validate_p002b(q, body)

------------------------------------------------------------------------------
(* From the upstream response to the handler's response *)

\* text ? JSON.parse(text) : null
ParseOrNull(text) == IF text = "" THEN JsNull ELSE JSONParse(text)

\* data?.error?.message
ErrorMessageOf(data) == IF data.k = "object" THEN data.errorMessage ELSE Undefined

\* data?.error?.message || text || fallback
Detail(data, text, fallback) ==
    IF Truthy(ErrorMessageOf(data)) THEN ErrorMessageOf(data).s
    ELSE IF text # "" THEN text
    ELSE fallback

\* the response headers of a relayed stream
StreamResponse ==
    NewResponse(StreamBody, 200,
        << <<"Content-Type", "text/event-stream">>,
           <<"Cache-Control", "no-cache, no-transform">>,
           <<"Connection", "keep-alive">>,
           <<"Access-Control-Allow-Origin", "*">> >>)

\* the handler from the resolution of fetch to its next await or its return:
\* chat.js clears its timer, the streaming variants return the stream
AfterFetch(r, head) ==
    LET q == [r EXCEPT !.upstream = head]
    IN  IF r.variant = "chat"
        THEN [q EXCEPT !.pc = "text", !.deadline.state = "cleared"]
        ELSE IF r.variant \in Streaming /\ Ok(head) /\ head.hasBody
        THEN Finish([q EXCEPT !.stream = "open"], StreamResponse)
        ELSE [q EXCEPT !.pc = "text"]

\* the k-th chunk of an upstream event stream
Chunk(k) == "data: " \o ToString(k) \o "\n\n"

\* a relay that hands over the newest chunk and loses the ones before it
PullNewest(r) ==
    IF Len(r.delivered) < Len(r.emitted)
    THEN [r EXCEPT !.delivered = Append(@, r.emitted[Len(r.emitted)])]
    ELSE IF r.upstreamClosed THEN [r EXCEPT !.stream = "closed"]
    ELSE r

\* new Response(upstream.body, ...): the body of the response is the body of
\* the upstream; a read by the caller takes the next chunk of it, or its end
Pull(r) ==
    IF Len(r.delivered) < Len(r.emitted)
    THEN [r EXCEPT !.delivered = Append(@, r.emitted[Len(r.delivered) + 1])]
    ELSE IF r.upstreamClosed THEN [r EXCEPT !.stream = "closed"]
    ELSE r

\* the handler after fetch rejected with e
AfterFetchRejected(r, e) == Finish([r EXCEPT !.fetchFault = e.name], Catch(r.variant, e))

\* chat.js, either path, from the text of the upstream body to the return
Respond_chat(r, text) ==
    LET responseData == ParseOrNull(text)
    IN  IF ~responseData.valid
        THEN jsonResponse(ErrorObject("Invalid response from AI service"), 502, <<>>)
        ELSE IF ~Ok(r.upstream)
        THEN jsonResponse(
                 ErrorObject("AI service error: "
                     \o Detail(responseData, text, "HTTP " \o ToString(r.upstream.status))),
                 502, <<>>)
        ELSE jsonResponse(DataObject(responseData), 200, <<>>)

\* try { data = text ? JSON.parse(text) : null } catch { data = null }
ParseQuietly(text) == IF ParseOrNull(text).valid THEN ParseOrNull(text) ELSE JsNull

\* { ...data, k: v } for the keys k: the properties of data, then the
\* literal's own, which replace the properties of data with the same key
SpreadThen(data, own) ==
    [JsonBody(data.keys \cup own, "", "", data) EXCEPT !.replaced = data.keys \cap own]

\* a handler that reads the module-level counter into its answer
Respond_appCounted(r, text) ==
    LET data == ParseQuietly(text)
    IN  IF ~Ok(r.upstream)
        THEN handleError(
                 "OpenAI error: "
                     \o Detail(data, text, "Upstream HTTP " \o ToString(r.upstream.status)),
                 502)
        ELSE createResponse(
                 [SpreadThen(data, {"_metadata"}) EXCEPT !.message = ToString(requestCount)],
                 200, <<>>)

\* app.js handleOpenAIResponse and the rest of the handler
Respond_app(r, text) ==
    LET data == ParseQuietly(text)
    IN  IF ~Ok(r.upstream)
        THEN handleError(
                 "OpenAI error: "
                     \o Detail(data, text, "Upstream HTTP " \o ToString(r.upstream.status)),
                 502)
        ELSE createResponse(SpreadThen(data, {"_metadata"}), 200, <<>>)

\* part_000 (either path) and the first handler of part_002
Respond_p000(r, text) ==
    LET data == ParseQuietly(text)
    IN  IF ~Ok(r.upstream)
        THEN createResponse(
                 ErrorObject("OpenAI error: "
                     \o Detail(data, text, "Upstream HTTP " \o ToString(r.upstream.status))),
                 502, <<>>)
        ELSE createResponse(DataObject(data), 200, <<>>)

\* part_001, the upstream error branch, with the data it settled on
Respond_p001(r, data) ==
    IF data.k = "null" THEN Catch("p001", NullError)
    ELSE response(
             ErrorObject("OpenAI error: " \o
                 (IF Truthy(data.errorMessage) THEN data.errorMessage.s
                  ELSE IF Truthy(data.message) THEN data.message.s
                  ELSE "Upstream HTTP " \o ToString(r.upstream.status))),
             502, <<>>)

\* part_002, second handler, the upstream error branch
Respond_p002b(r, text) ==
    handleError(
        "OpenAI error: "
            \o Detail(ParseQuietly(text), text,
                      "Upstream HTTP " \o ToString(r.upstream.status)),
        502)

\* the handler from the resolution of upstream.text() to its return
AfterText(r, text) ==
    Finish([r EXCEPT !.textRead = TRUE, !.text = text],
        CASE r.variant = "chat" -> Respond_chat(r, text)
          [] r.variant = "app"  -> Respond_app(r, text)
          [] r.variant \in {"p000", "p002a"} -> Respond_p000(r, text)
          [] r.variant = "p001" ->
               Respond_p001(r,
                   IF text = "" THEN ObjMessage("Unknown upstream error.", 23)
                   ELSE IF JSONParse(text).valid THEN JSONParse(text)
                   ELSE ObjMessage("Error parsing OpenAI error response.", 36))
          [] r.variant = "p002b" -> Respond_p002b(r, text))

\* the handler after upstream.text() rejected with e: part_001 and the second
\* handler of part_002 catch it next to the call, the others in Catch
AfterTextRejected(r, e) ==
    Finish([r EXCEPT !.textFault = e.name],
        CASE r.variant = "p001" ->
               Respond_p001(r, ObjMessage("Error parsing OpenAI error response.", 36))
          [] r.variant = "p002b" -> Respond_p002b(r, "")
          [] OTHER -> Catch(r.variant, e))

\* app.js trackRequest
trackRequest(count) == count + 1

\* a handler that calls trackRequest before it looks at the upstream status
TracksEvery(r) == r.variant = "app"

\* whether the run that ends with this text passes through trackRequest
Tracks(r) == r.variant = "app" /\ Ok(r.upstream)

\* the exception a deadline raises in the awaited call: controller.abort()
\* gives an AbortError, AbortSignal.timeout a TimeoutError
DeadlineError(r) == IF r.deadline.kind = "setTimeout" THEN AbortError ELSE TimeoutError

------------------------------------------------------------------------------
(* The steps *)

\* a request arrives on slot i and the handler runs to its first await
Receive(i) ==
    /\ inv[i].pc = "idle"
    /\ \E v \in Variants, m \in Methods, ct \in ContentTypes :
         inv' = [inv EXCEPT ![i] =
                    Dispatch([Idle EXCEPT !.variant = v, !.method = m,
                                          !.contentType = ct],
                             env.apiKey)]
    /\ UNCHANGED <<env, requestCount, wf, val>>

\* req.json() settles: it resolves with the parsed body or rejects
JsonSettles(i) ==
    /\ inv[i].pc = "json"
    /\ \E body \in Bodies : inv' = [inv EXCEPT ![i] = AfterJson(inv[i], body)]
    /\ UNCHANGED <<env, requestCount, wf, val>>

\* fetch resolves with the upstream's status line and headers
FetchResolves(i) ==
    /\ inv[i].pc = "fetch"
    /\ \E head \in UpstreamHeads : inv' = [inv EXCEPT ![i] = AfterFetch(inv[i], head)]
    /\ UNCHANGED <<env, requestCount, wf, val>>

\* fetch rejects: DNS, connection reset, TLS
FetchRejects(i) ==
    /\ inv[i].pc = "fetch"
    /\ inv' = [inv EXCEPT ![i] = AfterFetchRejected(inv[i], FetchFailed)]
    /\ UNCHANGED <<env, requestCount, wf, val>>

\* upstream.text() resolves with the body text
TextResolves(i) ==
    /\ inv[i].pc = "text"
    /\ \E text \in Texts :
         /\ inv[i].upstream.hasBody \/ text = ""
         /\ inv' = [inv EXCEPT ![i] = AfterText(inv[i], text)]
    /\ requestCount' = IF Tracks(inv[i]) THEN trackRequest(requestCount) ELSE requestCount
    /\ UNCHANGED <<env, wf, val>>

\* upstream.text() rejects: the connection broke while the body was read
TextRejects(i) ==
    /\ inv[i].pc = "text"
    /\ inv[i].upstream.hasBody
    /\ inv' = [inv EXCEPT ![i] = AfterTextRejected(inv[i], BodyFailed)]
    /\ UNCHANGED <<env, requestCount, wf, val>>

\* the deadline expires while the handler awaits the upstream: the call is
\* aborted and the awaited promise rejects
DeadlineExpires(i) ==
    /\ inv[i].pc \in {"fetch", "text"}
    /\ inv[i].deadline.state = "armed"
    /\ LET r == [inv[i] EXCEPT !.deadline.state = "fired", !.aborted = TRUE]
       IN  inv' = [inv EXCEPT ![i] =
                      IF r.pc = "fetch" THEN AfterFetchRejected(r, DeadlineError(r))
                      ELSE AfterTextRejected(r, DeadlineError(r))]
    /\ UNCHANGED <<env, requestCount, wf, val>>

\* chat.js: a timer that was not cleared fires after the handler has
\* returned, and its callback calls controller.abort()
TimerFiresLate(i) ==
    /\ inv[i].pc = "done"
    /\ inv[i].deadline.kind = "setTimeout"
    /\ inv[i].deadline.state = "armed"
    /\ inv' = [inv EXCEPT ![i].deadline.state = "fired", ![i].lateAbort = TRUE]
    /\ UNCHANGED <<env, requestCount, wf, val>>

\* the upstream produces the next chunk of a body that is being relayed
UpstreamEmits(i) ==
    /\ inv[i].stream = "open"
    /\ ~inv[i].upstreamClosed
    /\ Len(inv[i].emitted) < MaxChunks
    /\ inv' = [inv EXCEPT ![i].emitted = Append(@, Chunk(Len(@) + 1))]
    /\ UNCHANGED <<env, requestCount, wf, val>>

\* the upstream ends its body
UpstreamCloses(i) ==
    /\ inv[i].stream = "open"
    /\ ~inv[i].upstreamClosed
    /\ inv' = [inv EXCEPT ![i].upstreamClosed = TRUE]
    /\ UNCHANGED <<env, requestCount, wf, val>>

\* the caller reads from the body of the streamed response
Relay(i) ==
    /\ inv[i].stream = "open"
    /\ Pull(inv[i]) # inv[i]
    /\ inv' = [inv EXCEPT ![i] = Pull(inv[i])]
    /\ UNCHANGED <<env, requestCount, wf, val>>

\* the signal of the upstream call times out while its body is still being
\* relayed: the body is errored, and the response of the caller with it
StreamCut(i) ==
    /\ inv[i].stream = "open"
    /\ inv[i].deadline.state = "armed"
    /\ inv' = [inv EXCEPT ![i].deadline.state = "fired", ![i].aborted = TRUE,
                          ![i].stream = "errored"]
    /\ UNCHANGED <<env, requestCount, wf, val>>

------------------------------------------------------------------------------
(* src/agentWorkflow.ts: runWorkflow, whose steps are its runs between the *)
(* awaits of runner.run                                                    *)

\* the agents runWorkflow passes to runAgent, in the order of its four calls
Agents ==
    << "Assignment 2 narrative agent.", "Assignment 2 rubric assessor",
       "Assignment 3 marker", "Agent checker" >>

\* workflow.input_as_text
InputTexts == {"", "essay"}

\* { role: "user", content: [{ type: "input_text", text }] }
UserItem(text) == [role |-> "user", type |-> "input_text", text |-> text, by |-> 0, n |-> 0]
\* the n-th raw item the run of agent a produces
RawItem(a, n) == [role |-> "assistant", type |-> "output_text", text |-> "", by |-> a, n |-> n]

\* what runner.run resolves with: newItems, each holding its rawItem, and
\* finalOutput (undefined, or a string that may be empty)
RunResult(a, count, finalOutput) ==
    [newItems |-> [k \in 1..count |-> [rawItem |-> RawItem(a, k)]],
     finalOutput |-> finalOutput]
FinalOutputs == {Undefined, Str("", 0), Str("feedback", 8)}

\* runWorkflow before its call: runs are the calls of runner.run (the agent
\* and the array it was given), produced and outputs what each run that
\* resolved came back with, results the output_text of the runAgent calls
NoWorkflow ==
    [pc |-> "idle",            \* idle, running, returned, rejected
     awaiting |-> 0,           \* the index of the agent whose run is awaited
     conversationHistory |-> <<>>,
     runs |-> <<>>, produced |-> <<>>, outputs |-> <<>>,
     results |-> <<>>,
     error |-> ""]

\* runAgent to its await: runner.run(agent, [...conversationHistory])
CallRunner(w, a) ==
    [w EXCEPT !.pc = "running", !.awaiting = a,
              !.runs = Append(@, [agent |-> Agents[a], input |-> w.conversationHistory])]

\* newItems.map(item => item.rawItem)
RawItems(newItems) == [k \in 1..Len(newItems) |-> newItems[k].rawItem]

\* a runAgent that keeps the items of a run to itself
AfterRunNoPush(w, resultTemp) ==
    LET pushed == [w EXCEPT !.produced = Append(@, RawItems(resultTemp.newItems)),
                            !.outputs = Append(@, resultTemp.finalOutput)]
    IN  IF ~Truthy(resultTemp.finalOutput)
        THEN [pushed EXCEPT !.pc = "rejected", !.awaiting = 0,
                            !.error = "Agent result is undefined"]
        ELSE LET q == [pushed EXCEPT !.results = Append(@, resultTemp.finalOutput.s)]
             IN  IF w.awaiting < Len(Agents) THEN CallRunner(q, w.awaiting + 1)
                 ELSE [q EXCEPT !.pc = "returned", !.awaiting = 0]

\* runAgent from the resolution of runner.run, and runWorkflow to the next
\* runAgent or to its return: the raw items are pushed, a missing final
\* output throws
AfterRun(w, resultTemp) ==
    LET pushed == [w EXCEPT !.conversationHistory = @ \o RawItems(resultTemp.newItems),
                            !.produced = Append(@, RawItems(resultTemp.newItems)),
                            !.outputs = Append(@, resultTemp.finalOutput)]
    IN  IF ~Truthy(resultTemp.finalOutput)
        THEN [pushed EXCEPT !.pc = "rejected", !.awaiting = 0,
                            !.error = "Agent result is undefined"]
        ELSE LET q == [pushed EXCEPT !.results = Append(@, resultTemp.finalOutput.s)]
             IN  IF w.awaiting < Len(Agents) THEN CallRunner(q, w.awaiting + 1)
                 ELSE [q EXCEPT !.pc = "returned", !.awaiting = 0]

\* runner.run rejected: nothing catches it, runWorkflow rejects with it
AfterRunRejected(w) ==
    [w EXCEPT !.pc = "rejected", !.awaiting = 0, !.error = "runner.run failed"]

\* runWorkflow is called and runs to the await of the first runner.run
StartWorkflow ==
    /\ wf.pc = "idle"
    /\ \E text \in InputTexts :
         wf' = CallRunner([NoWorkflow EXCEPT !.conversationHistory = <<UserItem(text)>>], 1)
    /\ UNCHANGED <<env, requestCount, inv, val>>

\* the awaited runner.run resolves
RunnerResolves ==
    /\ wf.pc = "running"
    /\ \E count \in 0..MaxNewItems, finalOutput \in FinalOutputs :
         wf' = AfterRun(wf, RunResult(wf.awaiting, count, finalOutput))
    /\ UNCHANGED <<env, requestCount, inv, val>>

\* the awaited runner.run rejects
RunnerRejects ==
    /\ wf.pc = "running"
    /\ wf' = AfterRunRejected(wf)
    /\ UNCHANGED <<env, requestCount, inv, val>>

NextWorkflow ==
    \/ StartWorkflow
    \/ RunnerResolves
    \/ RunnerRejects

------------------------------------------------------------------------------
(* The validation functions, called on a parsed body: what they return and *)
(* what they leave of the body and of the module-level state               *)

\* the validation of chat.js (validateMessages on the messages, validateModel
\* on the model) and the one of app.js (validateRequest)
ValidationFunctions == {"chat", "app"}

NoValidation ==
    [pc |-> "idle",            \* idle, start, once, twice
     fn |-> "", original |-> NullBody, body |-> NullBody,
     first |-> <<>>, second |-> <<>>]

\* a validation that writes the model it settled on into the body
CallValidationInPlace(fn, body, count) ==
    IF fn = "chat"
    THEN [result |-> <<validateMessages(Prop(body, "messages")),
                       validateModel(ModelOr(body, "gpt-4-mini"))>>,
          body |-> IF body.k = "object"
                   THEN [body EXCEPT !.model = ModelOr(body, "gpt-4-mini")] ELSE body,
          requestCount |-> count]
    ELSE [result |-> <<validateRequest_app(body)>>,
          body |-> IF body.k = "object"
                   THEN [body EXCEPT !.model = Str("gpt-4.1-mini", 12)] ELSE body,
          requestCount |-> count]

\* one call: the value returned (for app.js, the exception thrown included),
\* the body and requestCount after it; neither function assigns to a
\* property of its argument or to a module-level variable
CallValidation(fn, body, count) ==
    IF fn = "chat"
    THEN [result |-> <<validateMessages(Prop(body, "messages")),
                       validateModel(ModelOr(body, "gpt-4-mini"))>>,
          body |-> body, requestCount |-> count]
    ELSE [result |-> <<validateRequest_app(body)>>,
          body |-> body, requestCount |-> count]

\* validation is called on the body, a first and a second time
Validate ==
    /\ val.pc \in {"start", "once"}
    /\ LET out == CallValidation(val.fn, val.body, requestCount)
       IN  /\ val' = IF val.pc = "start"
                     THEN [val EXCEPT !.pc = "once", !.body = out.body,
                                      !.first = out.result]
                     ELSE [val EXCEPT !.pc = "twice", !.body = out.body,
                                      !.second = out.result]
           /\ requestCount' = out.requestCount
    /\ UNCHANGED <<env, inv, wf>>

NextValidation == Validate

\* any parsed body, before validation is called on it
InitValidation ==
    /\ env = [apiKey |-> TRUE]
    /\ requestCount = 0
    /\ inv = [i \in Slots |-> Idle]
    /\ wf = NoWorkflow
    /\ val \in { [NoValidation EXCEPT !.pc = "start", !.fn = fn,
                                      !.original = body, !.body = body] :
                    fn \in ValidationFunctions, body \in Bodies \ {Unparseable} }

------------------------------------------------------------------------------
Init ==
    /\ env \in [apiKey : BOOLEAN]
    /\ requestCount = 0
    /\ inv = [i \in Slots |-> Idle]
    /\ wf = NoWorkflow
    /\ val = NoValidation

\* one request, on slot 1
Next ==
    \/ Receive(1)
    \/ JsonSettles(1)
    \/ FetchResolves(1)
    \/ FetchRejects(1)
    \/ TextResolves(1)
    \/ TextRejects(1)
    \/ DeadlineExpires(1)
    \/ TimerFiresLate(1)
    \/ UpstreamEmits(1)
    \/ UpstreamCloses(1)
    \/ Relay(1)
    \/ StreamCut(1)

Spec == Init /\ [][Next]_vars

------------------------------------------------------------------------------
(* Concurrent requests to the handler of app.js: every slot runs a request,*)
(* and the steps of the requests interleave at the awaits                  *)

ConcMethods == {"GET", "POST"}
ConcBodies ==
    { Unparseable,
      ObjectBody(ArrayOf(<<GoodMsg>>), Undefined, Undefined, Undefined),
      ObjectBody(ArrayOf(<<Msg(Str("user", 4), Str("long", MAX_MESSAGE_LENGTH + 1))>>),
                 Str("gpt-4.1", 7), Undefined, Undefined) }
ConcHeads == { [status |-> 200, hasBody |-> TRUE], [status |-> 500, hasBody |-> TRUE] }
ConcTexts == { TextChoices, "Bad Gateway" }

ReceiveApp(i) ==
    /\ inv[i].pc = "idle"
    /\ \E m \in ConcMethods :
         inv' = [inv EXCEPT ![i] =
                    Dispatch([Idle EXCEPT !.variant = "app", !.method = m,
                                          !.contentType = "application/json; charset=utf-8"],
                             env.apiKey)]
    /\ UNCHANGED <<env, requestCount, wf, val>>

JsonSettlesApp(i) ==
    /\ inv[i].pc = "json"
    /\ \E body \in ConcBodies : inv' = [inv EXCEPT ![i] = AfterJson(inv[i], body)]
    /\ UNCHANGED <<env, requestCount, wf, val>>

FetchResolvesApp(i) ==
    /\ inv[i].pc = "fetch"
    /\ \E head \in ConcHeads : inv' = [inv EXCEPT ![i] = AfterFetch(inv[i], head)]
    /\ UNCHANGED <<env, requestCount, wf, val>>

TextResolvesApp(i) ==
    /\ inv[i].pc = "text"
    /\ \E text \in ConcTexts : inv' = [inv EXCEPT ![i] = AfterText(inv[i], text)]
    /\ requestCount' = IF Tracks(inv[i]) THEN trackRequest(requestCount) ELSE requestCount
    /\ UNCHANGED <<env, wf, val>>

NextConc ==
    \E i \in Slots :
        \/ ReceiveApp(i)
        \/ JsonSettlesApp(i)
        \/ FetchResolvesApp(i)
        \/ FetchRejects(i)
        \/ TextResolvesApp(i)
        \/ TextRejects(i)
        \/ DeadlineExpires(i)

SpecConc == Init /\ [][NextConc]_vars

\* one call of runWorkflow
SpecWorkflow == Init /\ [][NextWorkflow]_vars

\* two calls of a validation function on one body
SpecValidation == InitValidation /\ [][NextValidation]_vars

------------------------------------------------------------------------------
(* The requests the properties speak of *)

\* a message with an enumerated role and a non-empty content within the limit
WellFormedMessage(m) ==
    /\ m.k = "object"
    /\ m.role.t = "string" /\ m.role.s \in {"system", "user", "assistant"}
    /\ m.content.t = "string" /\ m.content.n >= 1 /\ m.content.n <= MAX_MESSAGE_LENGTH

\* 1 to 100 well-formed messages
WellFormedMessages(ms) ==
    /\ ms.t = "array"
    /\ Len(ms.items) >= 1 /\ Len(ms.items) <= MaxMessages
    /\ \A k \in 1..Len(ms.items) : WellFormedMessage(ms.items[k])

\* the model is absent, or on the allow-list of the variant when it has one
ModelAccepted(v, model) ==
    \/ model.t = "undefined"
    \/ /\ model.t = "string"
       /\ CASE v = "chat" -> model.s \in validModels
            [] v \in {"app", "p002a"} -> model.s \in ALLOWED_MODELS_app
            [] v = "p002b" -> model.s \in ALLOWED_MODELS_p002b
            [] OTHER -> TRUE

\* a POST that got past the content-type and credential checks and whose
\* parsed body is valid
ValidPost(r) ==
    /\ r.method = "POST" /\ r.keyRead /\ r.validationRun
    /\ r.body.k = "object"
    /\ WellFormedMessages(r.body.messages)
    /\ ModelAccepted(r.variant, r.body.model)

Done(r) == r.pc = "done"
\* the handler returned a Response with this status
Status(r, status) == r.outcome = "returned" /\ r.response.status = status

------------------------------------------------------------------------------
(* C1: a POST that passes validation has issued exactly one upstream call  *)
(* from the moment validation has run until the handler has returned, on   *)
(* the chat-completions and on the Responses-API path, and no request,     *)
(* whatever its outcome, ever has a second upstream call (no retry).       *)
C1_ExactlyOneUpstreamCall ==
    \A i \in Slots :
        /\ inv[i].fetches <= 1
        /\ ValidPost(inv[i]) => inv[i].fetches = 1

\* a valid POST on the Responses-API path whose fetch failed at transport
\* level has returned, after one call
C1_Witness ==
    \E i \in Slots :
        /\ Done(inv[i]) /\ ValidPost(inv[i])
        /\ inv[i].endpoint = "/v1/responses"
        /\ inv[i].fetchFault = "TypeError"
        /\ inv[i].fetches = 1

(* C6: every Response a handler returns, on every path, carries the header *)
(* access-control-allow-origin with the value *.                           *)
C6_CorsOnEveryResponse ==
    \A i \in Slots :
        inv[i].outcome = "returned" =>
            HeaderGet(inv[i].response.headers, "access-control-allow-origin") = "*"

\* a relayed stream, which no JSON helper builds, has been returned with the
\* header
C6_Witness ==
    \E i \in Slots :
        /\ Status(inv[i], 200)
        /\ inv[i].response.body.kind = "stream"
        /\ HeaderGet(inv[i].response.headers, "access-control-allow-origin") = "*"

(* C2: a POST whose messages is an empty array ends with status 400 and    *)
(* issues no upstream call, in chat.js, app.js, part_001 and both handlers *)
(* of part_002.                                                            *)
C2_EmptyMessagesRejected ==
    \A i \in Slots :
        LET r == inv[i]
        IN  ( /\ r.method = "POST" /\ r.validationRun
              /\ r.variant \in {"chat", "app", "p001", "p002a", "p002b"}
              /\ r.body.k = "object"
              /\ r.body.messages.t = "array" /\ Len(r.body.messages.items) = 0 )
            => /\ r.fetches = 0
               /\ Done(r) => Status(r, 400)

(* C3: a POST with more than 100 messages ends with status 400 and issues  *)
(* no upstream call; one with exactly 100 well-formed messages is not      *)
(* rejected (chat.js, app.js, part_002).                                   *)
C3_TooManyMessagesRejected ==
    \A i \in Slots :
        LET r == inv[i]
            posted == /\ r.method = "POST" /\ r.validationRun
                      /\ r.variant \in {"chat", "app", "p002b"}
                      /\ r.body.k = "object" /\ r.body.messages.t = "array"
        IN  /\ (posted /\ Len(r.body.messages.items) > MaxMessages)
                => /\ r.fetches = 0
                   /\ Done(r) => Status(r, 400)
            /\ (posted /\ Len(r.body.messages.items) = MaxMessages /\ ValidPost(r))
                => ~Status(r, 400)

(* C4: for a POST with valid messages, an absent model is replaced by the  *)
(* variant's default in the upstream payload; a model that is present and  *)
(* not on the allow-list ends with status 400, is never replaced by the    *)
(* default, and no upstream call is issued.                                *)
C4_ModelDefaultOrRejected ==
    \A i \in Slots :
        LET r == inv[i]
            posted == /\ r.method = "POST" /\ r.validationRun
                      /\ r.body.k = "object" /\ WellFormedMessages(r.body.messages)
        IN  /\ (posted /\ r.body.model.t = "undefined" /\ r.fetches > 0)
                => r.payload.model = DefaultModel(r.variant)
            /\ (posted /\ ~ModelAccepted(r.variant, r.body.model))
                => /\ r.fetches = 0
                   /\ Done(r) => Status(r, 400)

(* C5: with no upstream credential configured, every POST, whatever its    *)
(* content-type and body, ends with status 500 and a JSON body {error},    *)
(* and no upstream call is attempted.                                      *)
C5_MissingCredentialIs500 ==
    \A i \in Slots :
        LET r == inv[i]
        IN  (~env.apiKey /\ r.method = "POST")
            => /\ r.fetches = 0
               /\ Done(r) => /\ Status(r, 500)
                             /\ r.response.body.kind = "json"
                             /\ "error" \in r.response.body.keys

(* C7: OPTIONS always ends with 204 and the CORS headers, GET with 200 and *)
(* the payload {ok, message, timestamp}, any other method but POST with    *)
(* 405; on none of these paths is the credential read, the body parsed,    *)
(* validation run or an upstream call issued (chat.js and part_000).       *)
C7_MethodDispatchTerminal ==
    \A i \in Slots :
        LET r == inv[i]
        IN  (Done(r) /\ r.method # "POST" /\ r.variant \in {"chat", "p000"})
            => /\ r.method = "OPTIONS" =>
                    /\ Status(r, 204)
                    /\ HeaderGet(r.response.headers, "access-control-allow-origin") = "*"
                    /\ HeaderGet(r.response.headers, "access-control-allow-methods") # ""
               /\ r.method = "GET" =>
                    /\ Status(r, 200)
                    /\ {"ok", "message", "timestamp"} \subseteq r.response.body.keys
               /\ r.method \notin {"OPTIONS", "GET"} => Status(r, 405)
               /\ ~r.keyRead /\ ~r.jsonCalled /\ ~r.validationRun /\ r.fetches = 0

(* C8: when the deadline expires before the upstream has responded, the    *)
(* upstream call is aborted and the handler answers 408 "Request timeout", *)
(* in every variant.                                                       *)
C8_DeadlineIs408 ==
    \A i \in Slots :
        LET r == inv[i]
        IN  (Done(r) /\ r.fetchFault \in {"AbortError", "TimeoutError"})
            => /\ r.aborted
               /\ Status(r, 408)
               /\ r.response.body.error = "Request timeout"

(* C9: when the upstream fetch fails at transport level, the handler       *)
(* answers 503 "Network error", on either path and in every variant.       *)
C9_TransportFailureIs503 ==
    \A i \in Slots :
        LET r == inv[i]
        IN  (Done(r) /\ r.fetchFault = "TypeError")
            => /\ Status(r, 503)
               /\ r.response.body.error = "Network error"

\* the detail C10 asks for: the body's error.message when it is JSON carrying
\* one, else the raw text when there is one, else a message naming the status
ExpectedDetails(text, status) ==
    LET data == JSONParse(text)
    IN  IF data.valid /\ data.k = "object" /\ data.errorMessage.t = "string"
        THEN {data.errorMessage.s}
        ELSE IF text # "" THEN {text}
        ELSE {"HTTP " \o ToString(status), "Upstream HTTP " \o ToString(status)}

(* C10: for an upstream response with a non-2xx status, whose body was     *)
(* read, the handler answers 502 and the error detail is error.message of  *)
(* the JSON body, else the raw text (also when it is not JSON), else a     *)
(* message naming the upstream status.                                     *)
C10_UpstreamErrorDetail ==
    \A i \in Slots :
        LET r == inv[i]
        IN  (Done(r) /\ r.textRead /\ ~Ok(r.upstream))
            => /\ Status(r, 502)
               /\ r.response.body.error \in
                    { prefix \o detail :
                        prefix \in {"AI service error: ", "OpenAI error: "},
                        detail \in ExpectedDetails(r.text, r.upstream.status) }

(* C11: for an upstream response with a 2xx status whose body is not JSON, *)
(* the buffered handlers answer 502 "Invalid response from AI service",    *)
(* never 200 with a null or empty body.                                    *)
C11_UnparseableSuccessIs502 ==
    \A i \in Slots :
        LET r == inv[i]
        IN  ( /\ Done(r) /\ r.textRead /\ Ok(r.upstream)
              /\ r.variant \notin Streaming
              /\ r.text # "" /\ ~JSONParse(r.text).valid )
            => /\ Status(r, 502)
               /\ r.response.body.error = "Invalid response from AI service"

\* an entry of messages that is not an object, or has no string role among
\* the three enumerated ones, or has no string content
MalformedEntry(m) ==
    \/ m.k # "object"
    \/ m.role.t # "string"
    \/ m.role.s \notin {"system", "user", "assistant"}
    \/ m.content.t # "string"

\* the error texts that name the entry at this index and a reason
IndexedErrors(m, index) ==
    { "Invalid messages: Message at index " \o ToString(index) \o reason :
        reason \in { " must be an object", " must have a 'role' string",
                     " must have a 'content' string",
                     " has invalid role '" \o m.role.s \o "'" } }

(* C12: when an entry of messages is not an object (null included), or has *)
(* no string role among system, user and assistant, or has no string       *)
(* content, chat.js and app.js answer 400, never 500, with an error that   *)
(* names the index of the entry and the reason, and issue no upstream call.*)
C12_MalformedEntryIs400 ==
    \A i \in Slots :
        LET r     == inv[i]
            items == r.body.messages.items
        IN  \A k \in 1..MaxShort :
                ( /\ r.variant \in {"chat", "app"}
                  /\ r.method = "POST" /\ r.validationRun
                  /\ r.body.k = "object" /\ r.body.messages.t = "array"
                  /\ Len(items) <= MaxShort /\ k <= Len(items)
                  /\ MalformedEntry(items[k])
                  /\ \A j \in 1..(k - 1) : items[j] = GoodMsg )
                => /\ r.fetches = 0
                   /\ Done(r) /\ Status(r, 400)
                   /\ r.response.body.error \in IndexedErrors(items[k], k - 1)

(* C13: in every handler variant, chat.js included, a message whose content*)
(* is longer than 500 characters is answered 400 without an upstream call, *)
(* and a content of exactly 500 characters is accepted.                    *)
C13_LengthLimitIs500 ==
    \A i \in Slots :
        LET r     == inv[i]
            items == r.body.messages.items
        IN  /\ ( /\ r.method = "POST" /\ r.validationRun
                 /\ r.body.k = "object" /\ r.body.messages.t = "array"
                 /\ Len(items) >= 1 /\ Len(items) <= MaxMessages
                 /\ \E k \in 1..Len(items) :
                        /\ items[k].k = "object" /\ items[k].content.t = "string"
                        /\ items[k].content.n > 500 )
               => (r.fetches = 0 /\ Status(r, 400))
            /\ ( /\ ValidPost(r)
                 /\ \E k \in 1..Len(items) : items[k].content.n = 500 )
               => (r.fetches = 1 /\ ~Status(r, 400))

(* C14: for an upstream 2xx response whose body is JSON, chat.js and app.js*)
(* answer 200 and every field of the upstream payload is in the body with  *)
(* its upstream value: what the gateway adds never replaces or removes an  *)
(* upstream field, also when the payload has a _metadata key or is null.   *)
C14_UpstreamFieldsPreserved ==
    \A i \in Slots :
        LET r    == inv[i]
            data == JSONParse(r.text)
        IN  ( /\ Done(r) /\ r.textRead /\ Ok(r.upstream)
              /\ r.variant \in {"chat", "app"}
              /\ data.valid )
            => /\ Status(r, 200)
               /\ r.response.body.kind = "json"
               /\ r.response.body.data = data
               /\ \A key \in data.keys :
                      key \in r.response.body.keys \ r.response.body.replaced

\* the handler returned the upstream body as an event stream
Streamed(r) == r.stream # "none"

\* s is an initial part of t
IsPrefix(s, t) == Len(s) <= Len(t) /\ \A k \in 1..Len(s) : s[k] = t[k]

(* C15 as stated: in streaming mode, once an upstream that answered 2xx has*)
(* emitted its chunks and closed and the response stream has ended, the    *)
(* caller has received exactly those chunks.                               *)
C15_AllChunksDelivered ==
    \A i \in Slots :
        LET r == inv[i]
        IN  (Streamed(r) /\ r.upstreamClosed /\ r.stream # "open")
            => r.delivered = r.emitted

(* C15: in streaming mode, for an upstream that answers 2xx, the response  *)
(* has status 200 and content-type text/event-stream; the caller receives  *)
(* the upstream chunks in order, nothing added, dropped, duplicated or     *)
(* altered; the stream closes only after the upstream has closed and every *)
(* chunk was delivered; it ends otherwise only by the deadline of the      *)
(* upstream call, with an initial part of the chunks delivered.            *)
C15_StreamRelayedInOrder ==
    \A i \in Slots :
        LET r == inv[i]
        IN  Streamed(r)
            => /\ Status(r, 200)
               /\ HeaderGet(r.response.headers, "Content-Type") = "text/event-stream"
               /\ r.response.body.kind = "stream"
               /\ IsPrefix(r.delivered, r.emitted)
               /\ \A k \in 1..Len(r.emitted) : r.emitted[k] = Chunk(k)
               /\ r.stream = "closed" => (r.upstreamClosed /\ r.delivered = r.emitted)
               /\ r.stream = "errored" => r.deadline.state = "fired"

\* every chunk of a two-chunk stream was relayed and the stream has closed
C15_Witness ==
    \E i \in Slots :
        /\ inv[i].stream = "closed"
        /\ Len(inv[i].delivered) >= 2
        /\ inv[i].delivered = inv[i].emitted

\* the statuses of the gateway's response contract
ContractStatuses == {200, 204, 400, 405, 408, 415, 500, 502, 503}

(* C16: in chat.js, app.js and part_001 no fault escapes the handler: every*)
(* run ends with a returned Response whose status is one of 200, 204, 400, *)
(* 405, 408, 415, 500, 502, 503, and a response that reports a failure     *)
(* (status 400 or above) has a JSON object body with an error property.    *)
C16_NoFaultEscapes ==
    \A i \in Slots :
        LET r == inv[i]
        IN  (Done(r) /\ r.variant \in {"chat", "app", "p001"})
            => /\ r.outcome = "returned"
               /\ r.response.status \in ContractStatuses
               /\ r.response.status >= 400
                    => /\ r.response.body.kind = "json"
                       /\ "error" \in r.response.body.keys
                       /\ r.response.body.error # ""

(* C17: in every handler variant, a POST whose content-type header is      *)
(* missing or is not JSON is answered 415 before the body is parsed, and   *)
(* no upstream call is issued.                                             *)
C17_WrongContentTypeIs415 ==
    \A i \in Slots :
        LET r == inv[i]
        IN  ( /\ r.pc # "idle" /\ r.method = "POST"
              /\ r.contentType \in {"", "text/plain"} )
            => /\ Done(r) /\ Status(r, 415)
               /\ ~r.jsonCalled
               /\ r.fetches = 0

(* C18: in buffered mode the deadline bounds the whole upstream exchange:  *)
(* while chat.js or app.js awaits the body of the upstream response, the   *)
(* deadline of the call is still armed (the timer is not disarmed before   *)
(* the body is fully read), so that an upstream which sends its headers    *)
(* and never finishes its body still ends with 408.                        *)
C18_DeadlineCoversBody ==
    \A i \in Slots :
        LET r == inv[i]
        IN  /\ (r.variant \in {"chat", "app"} /\ r.pc = "text")
               => r.deadline.state = "armed"
            /\ ( /\ r.variant \in {"chat", "app"} /\ Done(r)
                 /\ r.upstream # NoUpstream /\ r.textFault \in {"AbortError", "TimeoutError"} )
               => Status(r, 408)

\* the response is a JSON object with an error property, and no stream
JsonErrorOnly(r) ==
    /\ r.response.body.kind = "json" /\ "error" \in r.response.body.keys
    /\ HeaderGet(r.response.headers, "Content-Type") # "text/event-stream"
    /\ r.stream = "none" /\ r.delivered = <<>>

(* C19: in streaming mode, when the deadline expires before the upstream   *)
(* has sent its headers the caller gets 408 with a JSON error and no byte  *)
(* of a stream; when the upstream answers non-2xx, or without a body, the  *)
(* caller gets 502 with a JSON error, never 200 text/event-stream.         *)
C19_StreamingFailuresAreJson ==
    \A i \in Slots :
        LET r == inv[i]
        IN  /\ ( /\ r.variant \in Streaming /\ Done(r)
                 /\ r.fetchFault \in {"AbortError", "TimeoutError"} )
               => (Status(r, 408) /\ JsonErrorOnly(r))
            /\ ( /\ r.variant \in Streaming /\ Done(r)
                 /\ r.upstream # NoUpstream
                 /\ (~Ok(r.upstream) \/ ~r.upstream.hasBody) )
               => (Status(r, 502) /\ JsonErrorOnly(r))

\* the run of the handler on the input and the upstream outcome of r, with
\* no other request around: its steps one after the other
RunAlone(r) ==
    LET Expired(q) ==
            LET x == [q EXCEPT !.deadline.state = "fired", !.aborted = TRUE]
            IN  IF q.pc = "fetch" THEN AfterFetchRejected(x, DeadlineError(x))
                ELSE AfterTextRejected(x, DeadlineError(x))
        start   == Dispatch([Idle EXCEPT !.variant = r.variant, !.method = r.method,
                                         !.contentType = r.contentType],
                            env.apiKey)
        parsed  == IF start.pc # "json" THEN start
                   ELSE AfterJson(start, IF r.validationRun THEN r.body ELSE Unparseable)
        fetched == IF parsed.pc # "fetch" THEN parsed
                   ELSE IF r.upstream # NoUpstream THEN AfterFetch(parsed, r.upstream)
                   ELSE IF r.deadline.state = "fired" THEN Expired(parsed)
                   ELSE AfterFetchRejected(parsed, FetchFailed)
    IN  IF fetched.pc # "text" THEN fetched
        ELSE IF r.textRead THEN AfterText(fetched, r.text)
        ELSE IF r.deadline.state = "fired" THEN Expired(fetched)
        ELSE AfterTextRejected(fetched, BodyFailed)

\* the input of a request and the outcome of its upstream call
Given(r) ==
    <<r.variant, r.method, r.contentType, r.validationRun, r.body,
      r.upstream, r.fetchFault, r.textRead, r.text, r.textFault, r.deadline>>

(* C20: requests in flight at the same time do not interact: whatever the  *)
(* interleaving of their steps at the awaits, the response of each is the  *)
(* one it gets when it runs alone with the same input and the same         *)
(* upstream outcome, two requests with the same input and outcome get the  *)
(* same response, and the value of requestCount decides none of it.        *)
C20_RequestsDoNotInteract ==
    \A i \in Slots :
        Done(inv[i])
        => /\ inv[i] = RunAlone(inv[i])
           /\ \A j \in Slots :
                  (Done(inv[j]) /\ Given(inv[j]) = Given(inv[i]))
                  => /\ inv[j].outcome = inv[i].outcome
                     /\ inv[j].response = inv[i].response

\* a request has been answered 200 and counted while another one is in
\* flight, awaiting the body of its upstream response
C20_Witness ==
    \E i, j \in Slots :
        /\ i # j
        /\ Done(inv[i]) /\ Status(inv[i], 200) /\ inv[i].textRead
        /\ inv[j].pc = "text"
        /\ requestCount = 1

\* the variants that answer with the whole upstream body, not with a stream
Buffered == Variants \ Streaming

(* C21: in buffered mode the payload of the upstream chat-completions call *)
(* carries the messages of the request verbatim (same length, same order,  *)
(* each entry unchanged) and the effective model: the default of the       *)
(* variant when the request names none, the requested one when it is       *)
(* accepted; for messages [{role: user, content: "hi"}] and no model the   *)
(* upstream receives the default model and exactly that one message.       *)
C21_PayloadCarriesMessagesVerbatim ==
    \A i \in Slots :
        LET r == inv[i]
        IN  ( /\ r.variant \in Buffered /\ r.fetches > 0
              /\ r.endpoint = "/v1/chat/completions" )
            => /\ {"model", "messages"} \subseteq r.payload.keys
               /\ Len(r.payload.messages) = Len(r.body.messages.items)
               /\ \A k \in 1..Len(r.payload.messages) :
                      r.payload.messages[k] = r.body.messages.items[k]
               /\ r.body.model.t = "undefined"
                    => r.payload.model = DefaultModel(r.variant)
               /\ (r.body.model.t = "string" /\ ModelAccepted(r.variant, r.body.model))
                    => r.payload.model = r.body.model.s
               /\ ( /\ r.body.messages.items = <<Msg(Str("user", 4), Str("hi", 2))>>
                    /\ r.body.model.t = "undefined" )
                    => /\ r.payload.model = DefaultModel(r.variant)
                       /\ r.payload.messages = <<Msg(Str("user", 4), Str("hi", 2))>>

\* app.js has sent two messages, the second one 500 characters long, and
\* the default model upstream
C21_Witness ==
    \E i \in Slots :
        LET r == inv[i]
        IN  /\ r.variant = "app" /\ r.fetches = 1
            /\ r.body.model.t = "undefined"
            /\ Len(r.payload.messages) = 2
            /\ r.payload.messages[2].content.n = MAX_MESSAGE_LENGTH
            /\ r.payload.messages = r.body.messages.items
            /\ r.payload.model = "gpt-4.1-mini"

(* C22: in Responses-API mode, in chat.js and in part_000, the call goes to*)
(* /v1/responses, never to chat-completions; its input has one entry per   *)
(* message of the request, in the same order, each with the role of the    *)
(* message and its content as a single text part; previous_response_id is  *)
(* in the payload if and only if the request supplied one.                 *)
C22_ResponsesInputPerMessage ==
    \A i \in Slots :
        LET r     == inv[i]
            items == r.body.messages.items
        IN  ( /\ r.variant \in {"chat", "p000"} /\ r.fetches > 0
              /\ Truthy(r.body.useResponsesApi) )
            => /\ r.endpoint = "/v1/responses"
               /\ "input" \in r.payload.keys /\ "messages" \notin r.payload.keys
               /\ Len(r.payload.input) = Len(items)
               /\ \A k \in 1..Len(r.payload.input) :
                      k <= Len(items)
                      => /\ r.payload.input[k].role = items[k].role
                         /\ r.payload.input[k].type = "text"
                         /\ r.payload.input[k].text = items[k].content
               /\ "previous_response_id" \in r.payload.keys
                    <=> r.body.previous_response_id # Undefined
               /\ r.payload.previous_response_id = r.body.previous_response_id

\* the sequences of a sequence, one after the other
RECURSIVE Flatten(_)
Flatten(seqs) == IF seqs = <<>> THEN <<>> ELSE Head(seqs) \o Flatten(Tail(seqs))

(* C23: runWorkflow runs the narrative agent, the rubric assessor, the     *)
(* assignment-3 marker and the agent checker in this order, each at most   *)
(* once, with no branching or retry; each run is given the user input      *)
(* followed by all items of every earlier run, in order, and the history   *)
(* only grows; when an agent returns no final output the workflow rejects  *)
(* with an error and no later agent is run.                                *)
C23_FourAgentsInOrder ==
    LET order == << "Assignment 2 narrative agent.", "Assignment 2 rubric assessor",
                    "Assignment 3 marker", "Agent checker" >>
    IN  wf.pc # "idle"
        => /\ Len(wf.runs) <= 4
           /\ \A k \in 1..Len(wf.runs) :
                  /\ wf.runs[k].agent = order[k]
                  /\ wf.runs[k].input
                        = <<wf.conversationHistory[1]>>
                            \o Flatten(SubSeq(wf.produced, 1, k - 1))
                  /\ IsPrefix(wf.runs[k].input, wf.conversationHistory)
                  /\ \A j \in 1..(k - 1) : Truthy(wf.outputs[j])
           /\ wf.conversationHistory[1].role = "user"
           /\ wf.conversationHistory
                 = <<wf.conversationHistory[1]>> \o Flatten(wf.produced)
           /\ \A k \in 1..Len(wf.outputs) :
                  ~Truthy(wf.outputs[k])
                  => /\ wf.pc = "rejected" /\ wf.error = "Agent result is undefined"
                     /\ Len(wf.runs) = k
           /\ wf.pc = "returned"
                  => /\ Len(wf.runs) = 4 /\ Len(wf.results) = 4
                     /\ \A k \in 1..4 : Truthy(wf.outputs[k])

\* the third agent returned items and no final output: two agents ran
\* before it on a growing history, the fourth did not run
C23_Witness ==
    /\ wf.pc = "rejected"
    /\ Len(wf.runs) = 3
    /\ Len(wf.produced[1]) > 0 /\ Len(wf.produced[2]) > 0 /\ Len(wf.produced[3]) > 0
    /\ Len(wf.runs[3].input) > Len(wf.runs[2].input)
    /\ ~Truthy(wf.outputs[3])

Completed ==
    { i \in Slots : /\ inv[i].variant = "app" /\ inv[i].method = "POST"
                   /\ Done(inv[i]) /\ Status(inv[i], 200) }

(* C25: in app.js requestCount starts at 0 and, after any interleaving of  *)
(* requests, equals the number of requests answered with a 200 completion: *)
(* it is not incremented by GET, validation failures, a missing credential,*)
(* upstream errors, timeouts or transport failures, and it never decreases.*)
C25_RequestCountIsCompletions ==
    /\ requestCount = Cardinality(Completed)
    /\ \A i \in Completed : inv[i].textRead /\ Ok(inv[i].upstream)

\* one request was answered 200 and counted, another one 502 and not counted
C25_Witness ==
    \E i, j \in Slots :
        /\ i \in Completed
        /\ j \notin Completed /\ Done(inv[j]) /\ Status(inv[j], 502)
        /\ requestCount = 1

(* C26: in chat.js no deadline timer outlives its request: when the fetch  *)
(* settled before the deadline, by a response or by a transport error, the *)
(* timer armed by setTimeout is cleared when the handler returns, and      *)
(* abort() is never invoked after the handler has produced its response.   *)
C26_TimerClearedBeforeReturn ==
    \A i \in Slots :
        LET r == inv[i]
        IN  (r.variant = "chat" /\ Done(r) /\ r.fetches > 0)
            => /\ r.deadline.kind = "setTimeout"
               /\ r.fetchFault \notin {"AbortError", "TimeoutError"}
                    => r.deadline.state = "cleared"
               /\ ~r.lateAbort

====
